---- MODULE Spec2Model ----
(***************************************************************************)
(* A model of dhan_websocket_bot.py: the streaming client's message        *)
(* handler and reconnect loop, the REST poller with its retry helper, and  *)
(* the symbol-to-identifier resolution shared by both.                     *)
(*                                                                         *)
(* Python values are represented as follows.  None, where a number is      *)
(* expected, is Null; None, where a string is expected, is NoneSym.  A     *)
(* dict is a sequence of <<key, value>> items in insertion order, which is *)
(* the order Python iterates it in.                                        *)
(***************************************************************************)
EXTENDS Integers, Sequences, FiniteSets, TLC

VARIABLES
    last_ltps,      \* DhanWebsocketClient.last_ltps: key -> last price
    ev,             \* what the last on_message call received and did
    symbols,        \* the configured symbol list (already split and stripped)
    payload_map,    \* result of build_security_payload(symbols)
    sec_list,       \* result of build_security_list(symbols)
    built,          \* which of the two builders have run
    p_pc,           \* PollerThread.run: "new", "loop" (at `try:`), "post" (in
                    \* requests.post, line 96), "backoff" (in the sleep of line
                    \* 109), "notify" (in a send_telegram), "sleep" (line 212)
    sym_map,        \* PollerThread.sym_map: symbol -> identifier, as items
    failed_count,   \* PollerThread.failed_count
    patched,        \* what download_and_build_map returned, as items
    fetches,        \* number of catalog downloads so far
    cyc,            \* what the last poll cycle met and did
    c_pc,           \* DhanWebsocketClient.run_forever: where the thread is
    stop_flag,      \* DhanWebsocketClient._stop
    ws,             \* DhanWebsocketClient.ws: "none" or "app"
    conn,           \* the connection of the current WebSocketApp
    frames,         \* frames on_open sent on the current connection
    delayed,        \* the reconnect delay was slept since the last connection
    opened,         \* connections opened so far (counted up to MaxConnects)
    s_pc,           \* a thread calling stop(): where it is
    tg              \* a caller of send_telegram: its configuration and progress

msgVars == <<last_ltps, ev>>
resVars == <<symbols, payload_map, sec_list, built>>
pollVars == <<p_pc, sym_map, failed_count, patched, fetches, cyc>>
cliVars == <<c_pc, stop_flag, ws, conn, frames, delayed, opened, s_pc>>
tgVars == <<tg>>
vars == <<last_ltps, ev, symbols, payload_map, sec_list, built,
          p_pc, sym_map, failed_count, patched, fetches, cyc,
          c_pc, stop_flag, ws, conn, frames, delayed, opened, s_pc, tg>>

----------------------------------------------------------------------------
(* Bounds of the model. *)

\* prices carried by the modelled messages are 0..MaxPrice
MaxPrice == 2
\* longest configured symbol list
MaxSymbols == 3
\* longest run of failed poll cycles
MaxFailures == 11
\* connections are counted up to this number
MaxConnects == 3
\* calls of send_telegram made by the modelled caller
MaxSends == 3

----------------------------------------------------------------------------
(* Python values. *)

\* None in a numeric position (json null, a missing dict key)
Null == -1
\* None in a string position
NoneSym == "<None>"

\* bool(x) for a number or None: None and 0 are falsy
Truthy(x) == x # Null /\ x # 0
\* Python's `a or b` on numbers
PyOr(a, b) == IF Truthy(a) THEN a ELSE b
\* bool(s) for a string or None: None and "" are falsy
TruthyStr(s) == s # NoneSym /\ s # ""
\* Python's `a or b` on strings
PyOrStr(a, b) == IF TruthyStr(a) THEN a ELSE b
\* str(x) for a string or None
Str(s) == IF s = NoneSym THEN "None" ELSE s

----------------------------------------------------------------------------
(* The static identifier tables, as item sequences in source order. *)

INDICES_NSE == << <<"NIFTY 50", "13">>, <<"NIFTY BANK", "25">>, <<"BANKNIFTY", "25">> >>
INDICES_BSE == << <<"SENSEX", "51">> >>
NIFTY50_STOCKS == << <<"TATAMOTORS", "3456">>, <<"RELIANCE", "2885">>, <<"TCS", "11536">> >>

\* dict.get(key): the value of the item with that key, or None
DictGet(d, k) ==
    IF \E i \in 1..Len(d) : d[i][1] = k
    THEN d[CHOOSE i \in 1..Len(d) : d[i][1] = k][2]
    ELSE NoneSym

\* the key of the first item whose value is sid, or dflt (a for loop with break)
FirstKeyOf(d, sid, dflt) ==
    IF \E i \in 1..Len(d) : Str(d[i][2]) = sid
    THEN LET first == CHOOSE i \in 1..Len(d) :
                          /\ Str(d[i][2]) = sid
                          /\ \A j \in 1..(i - 1) : Str(d[j][2]) # sid
         IN  d[first][1]
    ELSE dflt

----------------------------------------------------------------------------
(* The Telegram helper.                                                    *)
(*                                                                         *)
(* TELEGRAM_BOT_TOKEN and TELEGRAM_CHAT_ID come from os.getenv: None when  *)
(* the variable is not set, otherwise its text, "" included.  The outcome  *)
(* of the outbound call is "ok", "transport" (requests.post raises) or     *)
(* "status" (raise_for_status raises on a 4xx or 5xx answer).              *)
(***************************************************************************)

PostOutcomes == {"ok", "transport", "status"}

\* a helper without the try block around the outbound call
send_telegram_unguarded(token, chat, outcome) ==
    IF ~TruthyStr(token) \/ ~TruthyStr(chat)
    THEN [posted |-> FALSE, raised |-> FALSE, log |-> "not configured"]
    ELSE IF outcome = "ok"
         THEN [posted |-> TRUE, raised |-> FALSE, log |-> "sent"]
         ELSE [posted |-> TRUE, raised |-> TRUE, log |-> "none"]

\* send_telegram(text): whether requests.post was called, whether an
\* exception left the function, and the line it printed
send_telegram(token, chat, outcome) ==
    IF ~TruthyStr(token) \/ ~TruthyStr(chat)
    THEN [posted |-> FALSE, raised |-> FALSE, log |-> "not configured"]
    ELSE IF outcome = "ok"
         THEN [posted |-> TRUE, raised |-> FALSE, log |-> "sent"]
         ELSE [posted |-> TRUE, raised |-> FALSE, log |-> "send error"]

\* no caller of send_telegram is followed
NoCaller == [token |-> NoneSym, chat |-> NoneSym, pc |-> "idle", calls |-> 0,
             posts |-> 0, last |-> "none", log |-> "none"]

InitTgIdle == tg = NoCaller

----------------------------------------------------------------------------
(* Symbols and their resolution. *)

\* the symbols the modelled configurations are made of
SymbolUniverse ==
    {"NIFTY", "NIFTY 50", "BANKNIFTY", "NIFTY BANK", "SENSEX", "RELIANCE",
     "INFY", "UNKNOWNTICKER", "sensex", " SENSEX"}

\* str.upper() on the symbols of the universe
Upper(s) == CASE s = "sensex" -> "SENSEX" [] OTHER -> s

\* str.strip() on the symbols of the universe
Strip(s) == CASE s = " SENSEX" -> "SENSEX" [] OTHER -> s

\* the decimal digits of an identifier string, or << >> when it is not a number
DigitsOf(sid) ==
    CASE sid = "13" -> <<1, 3>>
      [] sid = "25" -> <<2, 5>>
      [] sid = "51" -> <<5, 1>>
      [] sid = "3456" -> <<3, 4, 5, 6>>
      [] sid = "2885" -> <<2, 8, 8, 5>>
      [] sid = "11536" -> <<1, 1, 5, 3, 6>>
      [] sid = "1594" -> <<1, 5, 9, 4>>
      [] OTHER -> << >>

RECURSIVE DecimalValue(_, _)
DecimalValue(ds, acc) ==
    IF ds = << >> THEN acc ELSE DecimalValue(Tail(ds), acc * 10 + Head(ds))

\* try: int(sid) / except: sid
IntOrSelf(sid) ==
    IF DigitsOf(sid) # << >> THEN DecimalValue(DigitsOf(sid), 0) ELSE sid

get_security_id(symbol) ==
    LET s == Strip(Upper(symbol))
    IN  PyOrStr(PyOrStr(DictGet(NIFTY50_STOCKS, s), DictGet(INDICES_NSE, s)),
                DictGet(INDICES_BSE, s))

\* the segment chosen inside build_security_payload
PayloadSegment(s) ==
    IF Upper(s) \in {"NIFTY", "NIFTY 50", "BANKNIFTY", "NIFTY BANK"} THEN "NSE_INDEX"
    ELSE IF Upper(s) = "SENSEX" THEN "BSE_INDEX"
    ELSE "NSE_EQ"

\* seg_map.setdefault(seg, []).append(x)
SetDefaultAppend(seg_map, seg, x) ==
    IF \E i \in 1..Len(seg_map) : seg_map[i][1] = seg
    THEN [i \in 1..Len(seg_map) |->
            IF seg_map[i][1] = seg THEN <<seg, Append(seg_map[i][2], x)>> ELSE seg_map[i]]
    ELSE Append(seg_map, <<seg, <<x>>>>)

\* a loop body that lost its `continue`: an unresolved symbol is appended too
PayloadStepNoSkip(seg_map, s) ==
    SetDefaultAppend(seg_map, PayloadSegment(s), IntOrSelf(get_security_id(s)))

\* one pass of the loop body of build_security_payload
PayloadStep(seg_map, s) ==
    IF ~TruthyStr(get_security_id(s)) THEN seg_map
    ELSE SetDefaultAppend(seg_map, PayloadSegment(s), IntOrSelf(get_security_id(s)))

RECURSIVE PayloadLoop(_, _, _)
PayloadLoop(syms, i, seg_map) ==
    IF i > Len(syms) THEN seg_map
    ELSE PayloadLoop(syms, i + 1, PayloadStep(seg_map, syms[i]))

build_security_payload(syms) == PayloadLoop(syms, 1, << >>)

\* a subscribe list that knows no index segment
ListSegmentEquityOnly(s) == "NSE_EQ"

\* the segment chosen inside build_security_list
ListSegment(s) ==
    IF Upper(s) \in {"NIFTY", "NIFTY 50", "BANKNIFTY", "NIFTY BANK"} THEN "NSE_INDEX"
    ELSE IF Upper(s) = "SENSEX" THEN "BSE_INDEX"
    ELSE "NSE_EQ"

\* one pass of the loop body of build_security_list
ListStep(out, s) ==
    IF ~TruthyStr(get_security_id(s)) THEN out
    ELSE Append(out, <<ListSegment(s), Str(get_security_id(s))>>)

RECURSIVE ListLoop(_, _, _)
ListLoop(syms, i, out) ==
    IF i > Len(syms) THEN out ELSE ListLoop(syms, i + 1, ListStep(out, syms[i]))

build_security_list(syms) == ListLoop(syms, 1, << >>)

----------------------------------------------------------------------------
(* Inbound frames of the streaming connection.                             *)
(*                                                                         *)
(* A frame is text or bytes; bytes may fail to decode as UTF-8; the text   *)
(* may fail to parse as JSON, parse to a non-object, or parse to an object.*)
(* An object is described by: whether it has a 'data' key and whether its  *)
(* value is a dict; the dict-valued items scanned as segments ("segs":     *)
(* the items of data['data'] when it is a dict, the dict-valued top-level  *)
(* items when there is no 'data' key); and its scalar top-level fields.    *)
(***************************************************************************)

Vals == {Null} \cup (0..MaxPrice)

\* identifiers used as keys of a segment bucket
NestedIds == {"2885", "999"}

NoTop == [ltp |-> Null, last_price |-> Null, lastPrice |-> Null, price |-> Null,
          symbol |-> NoneSym, instrument |-> NoneSym]

\* an instrument record with all three price fields free
FullEntries ==
    { [instid |-> id, isdict |-> TRUE, last_price |-> a, ltp |-> b, lastPrice |-> c] :
        id \in NestedIds, a \in Vals, b \in Vals, c \in Vals }

\* an instrument record with at most one price field, or a non-dict value
SimpleEntries ==
    { e \in FullEntries :
        Cardinality({f \in {"last_price", "ltp", "lastPrice"} : e[f] # Null}) <= 1 }
    \cup { [instid |-> id, isdict |-> FALSE, last_price |-> Null, ltp |-> Null,
            lastPrice |-> Null] : id \in NestedIds }

Bucket(seg, items) == [seg |-> seg, isdict |-> TRUE, items |-> items]
NonDictBucket(seg) == [seg |-> seg, isdict |-> FALSE, items |-> << >>]

\* top-level scalar fields, all four price fields free
FullTops ==
    { [ltp |-> a, last_price |-> b, lastPrice |-> c, price |-> d,
       symbol |-> s, instrument |-> i] :
        a \in Vals, b \in Vals, c \in Vals, d \in Vals,
        s \in {NoneSym, "2885"}, i \in {NoneSym, "999"} }

\* top-level scalar fields with exactly one price field
SimpleTops ==
    { t \in FullTops :
        /\ Cardinality({f \in {"ltp", "last_price", "lastPrice", "price"} : t[f] # Null}) = 1
        /\ t.instrument = NoneSym }

Body(dk, segs, top) == [dataKey |-> dk, segs |-> segs, top |-> top]

\* one segment with one instrument record
SingleBodies ==
    { Body(dk, << Bucket("NSE_EQ", <<e>>) >>, NoTop) :
        dk \in {"absent", "dict"}, e \in FullEntries }

\* two instrument records, under different identifiers in one segment or in
\* two segments, or one record behind a non-dict item
PairBodies ==
    { Body("dict", << Bucket("NSE_EQ", <<p[1], p[2]>>) >>, NoTop) :
        p \in {q \in SimpleEntries \X SimpleEntries : q[1].instid # q[2].instid} }
    \cup { Body("dict", << Bucket("NSE_EQ", <<e1>>), Bucket("NSE_INDEX", <<e2>>) >>, NoTop) :
        e1 \in SimpleEntries, e2 \in SimpleEntries }
    \cup { Body("dict", << NonDictBucket("status"), Bucket("NSE_EQ", <<e>>) >>, NoTop) :
        e \in SimpleEntries }

\* scalar fields only; 'data' absent, or present and not a dict
TopBodies ==
    { Body(dk, << >>, t) : dk \in {"absent", "other"}, t \in FullTops }

\* one instrument record together with top-level fields
MixedBodies ==
    { Body("dict", << Bucket("NSE_EQ", <<e>>) >>, t) :
        e \in SimpleEntries, t \in SimpleTops }

Bodies == SingleBodies \cup PairBodies \cup TopBodies \cup MixedBodies

EmptyBody == Body("absent", << >>, NoTop)

Frame(fr, utf8, js, body) == [frame |-> fr, utf8 |-> utf8, json |-> js, body |-> body]

Messages ==
    { Frame("text", TRUE, "invalid", EmptyBody), Frame("text", TRUE, "other", EmptyBody),
      Frame("bytes", FALSE, "invalid", EmptyBody), Frame("bytes", TRUE, "invalid", EmptyBody),
      Frame("bytes", TRUE, "other", EmptyBody) }
    \cup { Frame(fr, TRUE, "object", b) : fr \in {"text", "bytes"}, b \in Bodies }

----------------------------------------------------------------------------
(* DhanWebsocketClient.on_message *)

NotFound == [ltp |-> Null, symbol |-> NoneSym]

\* info.get('last_price') or info.get('ltp') or info.get('lastPrice')
InfoLtp(info) == PyOr(PyOr(info.last_price, info.ltp), info.lastPrice)

\* a handler that lost its None check: anything is taken for a price
IsPriceUnchecked(ltp) == TRUE

\* `ltp is not None`
IsPrice(ltp) == ltp # Null

\* the inner loop over a bucket's items, from item i: the first dict record
\* whose price expression is not None, with its identifier
RECURSIVE ScanBucket(_, _)
ScanBucket(items, i) ==
    IF i > Len(items) THEN NotFound
    ELSE IF items[i].isdict /\ IsPrice(InfoLtp(items[i]))
         THEN [ltp |-> InfoLtp(items[i]), symbol |-> items[i].instid]
         ELSE ScanBucket(items, i + 1)

\* the outer loop over the payload's items, from item i
RECURSIVE ScanPayload(_, _)
ScanPayload(segs, i) ==
    IF i > Len(segs) THEN NotFound
    ELSE IF segs[i].isdict /\ IsPrice(ScanBucket(segs[i].items, 1).ltp)
         THEN ScanBucket(segs[i].items, 1)
         ELSE ScanPayload(segs, i + 1)

\* data.get('ltp') or data.get('last_price') or data.get('lastPrice') or data.get('price')
TopLtp(top) == PyOr(PyOr(PyOr(top.ltp, top.last_price), top.lastPrice), top.price)

\* the price and the symbol on_message extracts from a parsed JSON object
ExtractLtp(body) ==
    LET nested == IF body.dataKey # "other" THEN ScanPayload(body.segs, 1) ELSE NotFound
    IN  IF IsPrice(nested.ltp) THEN nested
        ELSE [ltp |-> TopLtp(body.top),
              symbol |-> PyOrStr(PyOrStr(body.top.symbol, body.top.instrument),
                                 nested.symbol)]

\* the label: the symbol itself unless an identifier table holds str(symbol);
\* the three loops run in turn, a later match replacing an earlier one
Readable(symbol) ==
    LET sid == Str(symbol)
        r1 == FirstKeyOf(NIFTY50_STOCKS, sid, symbol)
        r2 == FirstKeyOf(INDICES_NSE, sid, r1)
    IN  FirstKeyOf(INDICES_BSE, sid, r2)

\* key = f"{readable}:{sid}" if sid else readable
TickKey(symbol) ==
    IF Str(symbol) # "" THEN Str(Readable(symbol)) \o ":" \o Str(symbol)
    ELSE Readable(symbol)

\* self.last_ltps.get(key)
StoreGet(store, key) == IF key \in DOMAIN store THEN store[key] ELSE Null

\* self.last_ltps[key] = ltp
StorePut(store, key, ltp) ==
    [k \in DOMAIN store \cup {key} |-> IF k = key THEN ltp ELSE store[k]]

\* the parsed object, or "dropped" when on_message returns from its first
\* try block, or "nodict" when the JSON value is not an object
Decode(m) ==
    IF m.frame = "bytes" /\ ~m.utf8 THEN "dropped"
    ELSE IF m.json = "invalid" THEN "dropped"
    ELSE IF m.json = "other" THEN "nodict"
    ELSE "object"

\* what on_message finds in m: a price and a symbol, or nothing
Found(m) == IF Decode(m) = "object" THEN ExtractLtp(m.body) ELSE NotFound

(* Reference reading of a message, as the price-extraction policy words it: *)
(* the first non-null value wins.                                           *)
RefOr(a, b) == IF a # Null THEN a ELSE b
RefInfo(info) == RefOr(RefOr(info.last_price, info.ltp), info.lastPrice)
RefTop(top) == RefOr(RefOr(RefOr(top.ltp, top.last_price), top.lastPrice), top.price)
RefEntries(body) ==
    IF body.dataKey = "other" THEN << >>
    ELSE LET RECURSIVE Flat(_)
             Flat(i) == IF i > Len(body.segs) THEN << >>
                        ELSE (IF body.segs[i].isdict THEN body.segs[i].items ELSE << >>)
                             \o Flat(i + 1)
         IN  SelectSeq(Flat(1), LAMBDA e : e.isdict /\ RefInfo(e) # Null)
RefExtract(body) ==
    IF RefEntries(body) # << >>
    THEN [ltp |-> RefInfo(RefEntries(body)[1]), symbol |-> RefEntries(body)[1].instid]
    ELSE [ltp |-> RefTop(body.top),
          symbol |-> IF body.top.symbol # NoneSym THEN body.top.symbol
                     ELSE body.top.instrument]
\* the object has some price field that is not null
HasPriceField(body) == RefExtract(body).ltp # Null

\* the record of the poll cycle when no cycle has begun.  got: the call of
\* line 196 has returned; pending: the notifications the cycle has still to
\* send, sent: those it has sent; ran: the try block has run to its end
NoCycle == [ran |-> FALSE, exc |-> FALSE, got |-> FALSE, outs |-> << >>,
            attempts |-> 0, result |-> "None", msg |-> "none", same |-> FALSE,
            prevFailed |-> 0, prevStreak |-> 0, streak |-> 0,
            pending |-> << >>, sent |-> << >>]

\* on_message(ws, message); ev keeps what the call met (the reference reading
\* of the frame, the store entry before the call, the number of the
\* connection) and what it did; ev.polled tells that the poller has got the
\* priced answer since this call
OnMessage(m) ==
    LET f == Found(m)
        key == TickKey(f.symbol)
        prev == StoreGet(last_ltps, key)
        ref == IF m.json = "object" /\ (m.frame = "text" \/ m.utf8)
               THEN RefExtract(m.body) ELSE NotFound
    IN  /\ last_ltps' = IF IsPrice(f.ltp) THEN StorePut(last_ltps, key, f.ltp)
                        ELSE last_ltps
        /\ ev' = [frame |-> m.frame, utf8 |-> m.utf8, json |-> m.json,
                  refKey |-> IF ref.ltp # Null THEN TickKey(ref.symbol) ELSE "",
                  refPrice |-> ref.ltp,
                  prevVal |-> IF ref.ltp # Null
                              THEN StoreGet(last_ltps, TickKey(ref.symbol)) ELSE Null,
                  gotKey |-> IF IsPrice(f.ltp) THEN key ELSE "",
                  gotPrice |-> f.ltp,
                  connNo |-> opened, prevConnNo |-> ev.connNo, polled |-> FALSE,
                  wasEmpty |-> last_ltps = << >>,
                  notified |-> IsPrice(f.ltp) /\ prev # f.ltp,
                  changed |-> last_ltps' # last_ltps,
                  raised |-> FALSE]
        /\ UNCHANGED <<resVars, pollVars, cliVars, tgVars>>

\* everything on_message reads of a frame
Digest(m) ==
    [frame |-> m.frame, utf8 |-> m.utf8, json |-> m.json, found |-> Found(m),
     ref |-> IF m.json = "object" THEN RefExtract(m.body) ELSE NotFound]

\* one frame of every digest: frames with the same digest drive on_message
\* through the same path with the same values
Delivered ==
    LET digests == { Digest(m) : m \in Messages }
    IN  { CHOOSE m \in Messages : Digest(m) = d : d \in digests }

Receive == \E m \in Delivered : OnMessage(m)

NoEvent == [frame |-> "none", utf8 |-> TRUE, json |-> "invalid", refKey |-> "",
            refPrice |-> Null, prevVal |-> Null, gotKey |-> "", gotPrice |-> Null,
            connNo |-> 0, prevConnNo |-> 0, polled |-> FALSE,
            wasEmpty |-> TRUE, notified |-> FALSE,
            changed |-> FALSE, raised |-> FALSE]

InitMsg == last_ltps = << >> /\ ev = NoEvent
InitRes == symbols = << >> /\ payload_map = << >> /\ sec_list = << >> /\ built = {}

\* PollerThread.__init__ on an empty symbol list
InitPollIdle ==
    /\ p_pc = "new" /\ sym_map = << >> /\ failed_count = 0
    /\ patched = << >> /\ fetches = 0 /\ cyc = NoCycle

\* DhanWebsocketClient.__init__, run_forever not yet called
InitCliIdle ==
    /\ c_pc = "top" /\ stop_flag = FALSE /\ ws = "none" /\ conn = "none"
    /\ frames = << >> /\ delayed = FALSE /\ opened = 0 /\ s_pc = "idle"

Init == InitMsg /\ InitRes /\ InitPollIdle /\ InitCliIdle /\ InitTgIdle
Next == Receive
Spec == Init /\ [][Next]_vars

----------------------------------------------------------------------------
(* Claims about on_message, checked under Spec. *)

\* the last call left the store as it was, sent nothing and did not raise
Quiet == ~ev.changed /\ ~ev.notified /\ ~ev.raised

\* the last call handled a text frame carrying a JSON object with a price
TextPrice == ev.frame = "text" /\ ev.json = "object" /\ ev.refPrice # Null

\* C1: a text message carrying a price for a key notifies exactly when the key
\* has no stored price yet or the price differs from the stored one.
C1_ChangeGating ==
    TextPrice => (ev.notified <=> (ev.prevVal = Null \/ ev.refPrice # ev.prevVal))

\* C2: on an empty store the first message carrying a price P for key K stores
\* P under K and sends a notification, whatever P is, 0 included.
C2_FirstObservation ==
    (TextPrice /\ ev.wasEmpty) =>
        (StoreGet(last_ltps, ev.refKey) = ev.refPrice /\ ev.notified)

\* C3 as claimed: a non-JSON string, any bytes payload, and a JSON object with
\* no price field each leave the store unchanged, notify nothing, raise nothing.
C3_MalformedQuiet ==
    (\/ ev.frame = "text" /\ ev.json = "invalid"
     \/ ev.frame = "bytes"
     \/ ev.frame = "text" /\ ev.json = "object" /\ ev.refPrice = Null) => Quiet

\* C3 amended: the same, with the bytes case limited to payloads that are not
\* valid UTF-8, or that decode to text which is not a JSON object or is an
\* object with no price field.
C3_MalformedQuietAmended ==
    (\/ ev.frame = "text" /\ ev.json = "invalid"
     \/ ev.frame = "bytes" /\ (~ev.utf8 \/ ev.json # "object" \/ ev.refPrice = Null)
     \/ ev.frame = "text" /\ ev.json = "object" /\ ev.refPrice = Null) => Quiet

\* C3 witness: bytes that do not decode arrived at a store already holding a price
C3_Witness ==
    ev.frame = "bytes" /\ ~ev.utf8 /\ last_ltps # << >> /\ Quiet

\* the last call parsed its frame to a JSON object
ParsedObject == ev.json = "object" /\ (ev.frame = "text" \/ (ev.frame = "bytes" /\ ev.utf8))

\* C14: for every message that parses to an object, the price on_message
\* extracts and the identifier it goes with are those of the ordered policy
\* read with "first non-null": nested records first (last_price, ltp,
\* lastPrice), the top-level fields (ltp, last_price, lastPrice, price) only
\* when no nested record has a non-null price; 0 is a value like any other.
C14_ExtractionPolicy ==
    ParsedObject => (ev.gotPrice = ev.refPrice /\ ev.gotKey = ev.refKey)

\* the keys whose stored price the step changes or creates
WrittenKeys == {k \in DOMAIN last_ltps' : StoreGet(last_ltps, k) # last_ltps'[k]}

\* C20: a call of on_message writes at most one key of last_ltps and removes
\* none; the key it writes, and notifies about, is that of the first
\* instrument record with a price in scan order (of the top-level fields when
\* no record has one); every other key keeps its stored price.
C20_OneKeyPerMessage ==
    [][/\ Cardinality(WrittenKeys) <= 1
       /\ \A k \in DOMAIN last_ltps : k \in DOMAIN last_ltps'
       /\ WrittenKeys \subseteq {ev'.refKey}
       /\ ev'.notified => ev'.gotKey = ev'.refKey]_vars

----------------------------------------------------------------------------
(* The two payload builders on every configured list: SpecRes. *)

SymbolLists == UNION { [1..n -> SymbolUniverse] : n \in 0..MaxSymbols }

InitBuilders ==
    /\ symbols \in SymbolLists
    /\ payload_map = << >> /\ sec_list = << >> /\ built = {}
    /\ InitMsg /\ InitPollIdle /\ InitCliIdle /\ InitTgIdle

\* the poller's build_security_payload(self.symbols)
BuildPayload ==
    /\ "payload" \notin built
    /\ payload_map' = build_security_payload(symbols)
    /\ built' = built \cup {"payload"}
    /\ UNCHANGED <<symbols, sec_list, msgVars, pollVars, cliVars, tgVars>>

\* on_open's build_security_list(self.symbols)
BuildList ==
    /\ "list" \notin built
    /\ sec_list' = build_security_list(symbols)
    /\ built' = built \cup {"list"}
    /\ UNCHANGED <<symbols, payload_map, msgVars, pollVars, cliVars, tgVars>>

NextRes == BuildPayload \/ BuildList
SpecRes == InitBuilders /\ [][NextRes]_vars

BothBuilt == built = {"payload", "list"}

\* the identifiers of a segment of the poll payload, as a set
PayloadIds(seg) ==
    UNION { {payload_map[i][2][j] : j \in 1..Len(payload_map[i][2])} :
            i \in {k \in 1..Len(payload_map) : payload_map[k][1] = seg} }
AllPayloadIds == UNION { PayloadIds(payload_map[i][1]) : i \in 1..Len(payload_map) }
RECURSIVE PayloadCount(_)
PayloadCount(i) ==
    IF i > Len(payload_map) THEN 0 ELSE Len(payload_map[i][2]) + PayloadCount(i + 1)
ListPairs == { sec_list[i] : i \in 1..Len(sec_list) }
Resolvable == { i \in 1..Len(symbols) : get_security_id(symbols[i]) # NoneSym }

\* the index segment the alias set assigns to a symbol name, "" for a non-alias
AliasSegment(name) ==
    IF name \in {"NIFTY", "NIFTY 50", "BANKNIFTY", "NIFTY BANK"} THEN "NSE_INDEX"
    ELSE IF name = "SENSEX" THEN "BSE_INDEX" ELSE ""

\* C7: every configured symbol of the index-alias set has an identifier, placed
\* in its index segment of both payloads; every other symbol that has an
\* identifier is placed in NSE_EQ.
C7_Segments ==
    BothBuilt =>
      \A i \in 1..Len(symbols) :
        LET s == symbols[i]
            sid == get_security_id(s)
            seg == IF AliasSegment(Upper(s)) # "" THEN AliasSegment(Upper(s)) ELSE "NSE_EQ"
        IN  (AliasSegment(Upper(s)) # "" \/ sid # NoneSym) =>
              /\ sid # NoneSym
              /\ <<seg, sid>> \in ListPairs
              /\ IntOrSelf(sid) \in PayloadIds(seg)

\* C8: a symbol without identifier adds nothing to either payload, every symbol
\* with an identifier is in both, and every identifier in a payload is that of
\* a configured symbol.
C8_UnresolvedExcluded ==
    BothBuilt =>
      /\ Len(sec_list) = Cardinality(Resolvable)
      /\ PayloadCount(1) = Cardinality(Resolvable)
      /\ \A i \in Resolvable :
            /\ \E p \in ListPairs : p[2] = get_security_id(symbols[i])
            /\ IntOrSelf(get_security_id(symbols[i])) \in AllPayloadIds
      /\ \A p \in ListPairs : \E i \in Resolvable : get_security_id(symbols[i]) = p[2]
      /\ \A n \in AllPayloadIds :
            \E i \in Resolvable : IntOrSelf(get_security_id(symbols[i])) = n

\* C8 witness: a list with an unknown and a known symbol went through both builders
C8_Witness ==
    /\ BothBuilt
    /\ \E i \in 1..Len(symbols) : symbols[i] = "UNKNOWNTICKER"
    /\ \E i \in 1..Len(symbols) : symbols[i] = "RELIANCE"
    /\ sec_list = << <<"NSE_EQ", "2885">> >>

\* the segment names of the two payloads
SegmentNames ==
    { payload_map[i][1] : i \in 1..Len(payload_map) } \cup { p[1] : p \in ListPairs }

\* the identifiers the subscribe list holds for a segment, in list order, each
\* read as a number the way the poll payload holds it
ListIdsOf(seg) ==
    LET sel == SelectSeq(sec_list, LAMBDA p : p[1] = seg)
    IN  [i \in 1..Len(sel) |-> IntOrSelf(sel[i][2])]

\* the identifiers the poll payload holds for a segment, in order
PayloadIdsOf(seg) ==
    IF \E i \in 1..Len(payload_map) : payload_map[i][1] = seg
    THEN payload_map[CHOOSE i \in 1..Len(payload_map) : payload_map[i][1] = seg][2]
    ELSE << >>

\* the (segment, identifier) pairs of the poll payload, flattened
PayloadPairs ==
    UNION { { <<payload_map[i][1], payload_map[i][2][j]>> : j \in 1..Len(payload_map[i][2]) } :
            i \in 1..Len(payload_map) }

\* C17: for every configured list the subscribe list and the flattened poll
\* payload hold the same (segment, identifier) pairs, and inside each segment
\* the identifiers come in the same order (the subscribe list holds an
\* identifier as text, the poll payload as the number it denotes).
C17_PathsAgree ==
    BothBuilt =>
      /\ { <<p[1], IntOrSelf(p[2])>> : p \in ListPairs } = PayloadPairs
      /\ \A seg \in SegmentNames : ListIdsOf(seg) = PayloadIdsOf(seg)
      /\ Len(sec_list) = PayloadCount(1)

\* C17 witness: two index symbols around a BSE one, and both builders ran
C17_Witness ==
    /\ BothBuilt /\ symbols = <<"BANKNIFTY", "sensex", "NIFTY 50">>
    /\ sec_list = << <<"NSE_INDEX", "25">>, <<"BSE_INDEX", "51">>, <<"NSE_INDEX", "13">> >>
    /\ payload_map = << <<"NSE_INDEX", <<25, 13>>>>, <<"BSE_INDEX", <<51>>>> >>

----------------------------------------------------------------------------
(* The REST poller: PollerThread and its helpers. *)

\* d[k] = v on a dict kept as items
DictSet(d, k, v) ==
    IF \E i \in 1..Len(d) : d[i][1] = k
    THEN [i \in 1..Len(d) |-> IF d[i][1] = k THEN <<k, v>> ELSE d[i]]
    ELSE Append(d, <<k, v>>)

\* the loop of PollerThread.__init__ filling sym_map from the static tables
RECURSIVE InitSymMap(_, _, _)
InitSymMap(syms, i, m) ==
    IF i > Len(syms) THEN m
    ELSE InitSymMap(syms, i + 1,
                    IF TruthyStr(get_security_id(syms[i]))
                    THEN DictSet(m, Upper(syms[i]), get_security_id(syms[i]))
                    ELSE m)

\* the second loop of download_and_build_map: the symbols the catalog knows
RECURSIVE PatchLoop(_, _, _, _)
PatchLoop(syms, i, mapping, out) ==
    IF i > Len(syms) THEN out
    ELSE PatchLoop(syms, i + 1, mapping,
                   IF TruthyStr(DictGet(mapping, Upper(Strip(syms[i]))))
                   THEN DictSet(out, Upper(Strip(syms[i])),
                                DictGet(mapping, Upper(Strip(syms[i]))))
                   ELSE out)

\* download_and_build_map: ok is whether the download and parse went through,
\* mapping is the name -> identifier dict read from the catalog
download_and_build_map(syms, ok, mapping) ==
    IF ok THEN PatchLoop(syms, 1, mapping, << >>) ELSE << >>

\* `for k, v in patched.items(): self.sym_map[k.upper()] = v`
RECURSIVE ApplyPatch(_, _, _)
ApplyPatch(m, p, i) ==
    IF i > Len(p) THEN m ELSE ApplyPatch(DictSet(m, Upper(p[i][1]), p[i][2]), p, i + 1)

\* retries=3 in the call of PollerThread.run
Retries == 3

\* the value of `resp` for None
RespNone == "None"

\* r.json() on a response body; the body "null" parses to None
JsonOf(body) == IF body = "null" THEN RespNone ELSE body

\* what requests.post of line 96 met is a response with status 200
Answered(o) == o.status = "200"

\* `return r.json()`, or None when the body does not decode
ReturnOf(o) == IF o.decodes THEN JsonOf(o.body) ELSE RespNone

\* a retry loop written range(1, retries): one attempt short
RetryLoopOneShort(attempt, retries) == attempt < retries - 1

\* `for attempt in range(1, retries+1)`: after attempt number `attempt` the
\* loop has another one to make
RetryLoopContinues(attempt, retries) == attempt < retries

\* format_poll_message(resp, sym_map): which of its three texts it returns;
\* None and the empty object are falsy
format_poll_message(resp) ==
    IF resp = RespNone \/ resp = "{}" THEN "no response"
    ELSE IF resp = "priced" THEN "snapshot lines"
    ELSE "no LTP fields"

\* a throttle that fires on every 5th failure instead of the 1st, 6th, ...
DiagnosticDueOnFifth(count) == count % 5 = 0

\* `self.failed_count % 5 == 1`
DiagnosticDue(count) == count % 5 = 1

\* a cycle that sends its snapshot only with the "recovered" notice
CycleEffectSnapshotOnRecovery(resp, count) ==
    IF resp = RespNone
    THEN [failed_count |-> count + 1,
          sent |-> IF DiagnosticDue(count + 1) THEN <<"diagnostic">> ELSE << >>]
    ELSE [failed_count |-> 0,
          sent |-> IF count > 0 THEN <<"recovered", "snapshot">> ELSE << >>]

\* the notifications of one cycle, in order, and the new failure count;
\* "snapshot" is send_telegram(msg) with the text of format_poll_message
CycleEffect(resp, count) ==
    IF resp = RespNone
    THEN [failed_count |-> count + 1,
          sent |-> IF DiagnosticDue(count + 1) THEN <<"diagnostic">> ELSE << >>]
    ELSE [failed_count |-> 0,
          sent |-> (IF count > 0 THEN <<"recovered">> ELSE << >>) \o <<"snapshot">>]

(* Inputs of the poller. *)
PollerConfigs ==
    { <<"RELIANCE">>, <<"INFY">>, <<"INFY", "UNKNOWNTICKER">>, <<"RELIANCE", "INFY">>,
      <<"NIFTY", "SENSEX">> }

Catalogs ==
    { << >>, << <<"INFY", "1594">> >>, << <<"INFY", "1594">>, <<"NIFTY", "13">> >> }

FailOutcomes ==
    { [status |-> st, decodes |-> FALSE, body |-> ""] : st \in {"500", "exc"} }
OkOutcomes ==
    { [status |-> "200", decodes |-> TRUE, body |-> b] :
        b \in {"null", "{}", "priced", "unpriced"} }
    \cup { [status |-> "200", decodes |-> FALSE, body |-> "garbage"] }

\* PollerThread(SYMBOLS) for each modelled configuration
InitPoller ==
    /\ symbols \in PollerConfigs
    /\ p_pc = "new"
    /\ sym_map = InitSymMap(symbols, 1, << >>)
    /\ failed_count = 0
    /\ patched = << >> /\ fetches = 0 /\ cyc = NoCycle
    /\ payload_map = << >> /\ sec_list = << >> /\ built = {}
    /\ InitMsg /\ InitCliIdle /\ InitTgIdle

\* run() up to the loop, the payload not empty
PollerStart ==
    /\ p_pc = "new"
    /\ build_security_payload(symbols) # << >>
    /\ payload_map' = build_security_payload(symbols)
    /\ p_pc' = "loop"
    /\ UNCHANGED <<sym_map, failed_count, patched, fetches, cyc,
                   symbols, sec_list, built, msgVars, cliVars, tgVars>>

\* run() up to the loop, the payload empty: the catalog is downloaded
PollerStartFetch ==
    /\ p_pc = "new"
    /\ build_security_payload(symbols) = << >>
    /\ \E ok \in BOOLEAN, mapping \in Catalogs :
          /\ patched' = download_and_build_map(symbols, ok, mapping)
          /\ sym_map' = ApplyPatch(sym_map, patched', 1)
    /\ fetches' = fetches + 1
    /\ payload_map' = build_security_payload(symbols)
    /\ p_pc' = "loop"
    /\ UNCHANGED <<failed_count, cyc, symbols, sec_list, built, msgVars, cliVars, tgVars>>

\* the top of a pass of the while loop: the payload is built and the call of
\* call_dhan_ltp_with_retries entered, up to its first requests.post
PollBegin ==
    /\ p_pc = "loop"
    /\ payload_map' = build_security_payload(symbols)
    /\ cyc' = [cyc EXCEPT !.ran = FALSE, !.exc = FALSE, !.got = FALSE,
                          !.outs = << >>, !.attempts = 0, !.msg = "none",
                          !.same = FALSE, !.prevFailed = failed_count,
                          !.prevStreak = cyc.streak,
                          !.pending = << >>, !.sent = << >>]
    /\ p_pc' = "post"
    /\ UNCHANGED <<failed_count, sym_map, patched, fetches, symbols, sec_list, built,
                   msgVars, cliVars, tgVars>>

\* the call has returned `resp` (c is the cycle record with its attempts):
\* format_poll_message, then lines 198-206 up to the first send_telegram, or
\* to the end of the try block when nothing is sent.  cyc.same tells that the
\* response is the one the cycle before had got too
HandleResponse(c, resp) ==
    LET eff == CycleEffect(resp, failed_count)
    IN  /\ failed_count' = IF resp = RespNone THEN eff.failed_count ELSE failed_count
        /\ cyc' = [c EXCEPT !.got = TRUE, !.result = resp,
                            !.msg = format_poll_message(resp),
                            !.same = resp # RespNone /\ resp = cyc.result,
                            !.streak = IF resp = RespNone THEN @ + 1 ELSE 0,
                            !.pending = eff.sent,
                            !.ran = eff.sent = << >>]
        /\ p_pc' = IF eff.sent = << >> THEN "sleep" ELSE "notify"

\* requests.post of line 96 returns or raises.  A 200 ends the call; anything
\* else goes to the sleep of line 109.  The priced answer is marked in
\* ev.polled, a record of the run that no statement of the poller holds
PollAttempt ==
    /\ p_pc = "post"
    /\ \E o \in FailOutcomes \cup OkOutcomes :
          LET c == [cyc EXCEPT !.outs = Append(@, o), !.attempts = @ + 1]
          IN  /\ (Answered(o) /\ ReturnOf(o) = RespNone) \/ ~Answered(o)
                   => failed_count < MaxFailures
              /\ IF Answered(o)
                 THEN HandleResponse(c, ReturnOf(o))
                 ELSE /\ cyc' = c
                      /\ p_pc' = "backoff"
                      /\ UNCHANGED failed_count
              /\ ev' = IF Answered(o) /\ ReturnOf(o) = "priced"
                       THEN [ev EXCEPT !.polled = TRUE] ELSE ev
    /\ UNCHANGED <<last_ltps, sym_map, patched, fetches, resVars, cliVars, tgVars>>

\* `time.sleep(backoff * attempt)` is over: the next attempt, or `return None`
\* after the last one
PollBackoff ==
    /\ p_pc = "backoff"
    /\ IF RetryLoopContinues(cyc.attempts, Retries)
       THEN /\ p_pc' = "post"
            /\ UNCHANGED <<cyc, failed_count>>
       ELSE HandleResponse(cyc, RespNone)
    /\ UNCHANGED <<sym_map, patched, fetches, resVars, msgVars, cliVars, tgVars>>

\* a send_telegram of the cycle returns; `self.failed_count = 0` follows the
\* one of "recovered" (line 206)
PollNotify ==
    /\ p_pc = "notify"
    /\ LET n == Head(cyc.pending)
           rest == Tail(cyc.pending)
       IN  /\ cyc' = [cyc EXCEPT !.sent = Append(@, n), !.pending = rest,
                                 !.ran = rest = << >> /\ ~cyc.exc]
           /\ failed_count' = IF n = "recovered" THEN 0 ELSE failed_count
           /\ p_pc' = IF rest = << >> THEN "sleep" ELSE "notify"
    /\ UNCHANGED <<sym_map, patched, fetches, resVars, msgVars, cliVars, tgVars>>

\* one pass of the while loop in which a statement of the try block raises
\* before the response is looked at: the except clause is entered, up to its
\* send_telegram
PollCycleRaise ==
    /\ p_pc = "loop"
    /\ payload_map' = build_security_payload(symbols)
    /\ cyc' = [cyc EXCEPT !.ran = FALSE, !.exc = TRUE, !.got = FALSE,
                          !.outs = << >>, !.attempts = 0, !.result = RespNone,
                          !.msg = "none", !.same = FALSE,
                          !.prevFailed = failed_count, !.prevStreak = cyc.streak,
                          !.pending = <<"exception">>, !.sent = << >>]
    /\ p_pc' = "notify"
    /\ UNCHANGED <<failed_count, sym_map, patched, fetches, symbols, sec_list, built,
                   msgVars, cliVars, tgVars>>

\* a loop whose except clause ends the thread
PollSleepUnlessRaised ==
    /\ p_pc = "sleep"
    /\ p_pc' = IF cyc.exc THEN "dead" ELSE "loop"
    /\ UNCHANGED <<failed_count, cyc, sym_map, patched, fetches, resVars,
                   msgVars, cliVars, tgVars>>

\* `time.sleep(self.interval)` and back to the top of the loop
PollSleep ==
    /\ p_pc = "sleep"
    /\ p_pc' = "loop"
    /\ UNCHANGED <<failed_count, cyc, sym_map, patched, fetches, resVars,
                   msgVars, cliVars, tgVars>>

NextPoll ==
    \/ PollerStart \/ PollerStartFetch \/ PollBegin \/ PollAttempt \/ PollBackoff
    \/ PollNotify \/ PollCycleRaise \/ PollSleep
SpecPoll == InitPoller /\ [][NextPoll]_vars

\* the poller thread keeps being scheduled; each of its steps ends (every
\* request has a timeout, every sleep is finite)
InitPollerFair == InitPoller /\ symbols \in {<<"RELIANCE">>, <<"INFY">>}
FairSpecPoll == InitPollerFair /\ [][NextPoll]_vars /\ WF_vars(NextPoll)

Count(seq, x) == Cardinality({i \in 1..Len(seq) : seq[i] = x})

\* C4: in a run of failed cycles a diagnostic goes out on the 1st, 6th, 11th,
\* ... failed cycle and on no other; the first success after a failure run
\* sends exactly one "recovered" and resets the counter, a success after a
\* success sends none.
C4_FailureStreak ==
    cyc.ran =>
      /\ cyc.result = RespNone =>
            /\ Count(cyc.sent, "diagnostic") = (IF cyc.streak % 5 = 1 THEN 1 ELSE 0)
            /\ Count(cyc.sent, "recovered") = 0
      /\ cyc.result # RespNone =>
            /\ Count(cyc.sent, "recovered") = (IF cyc.prevStreak >= 1 THEN 1 ELSE 0)
            /\ Count(cyc.sent, "diagnostic") = 0
            /\ failed_count = 0

\* C4 witness: the 6th failed cycle in a row sent a diagnostic
C4_Witness ==
    cyc.ran /\ cyc.result = RespNone /\ cyc.streak = 6 /\ cyc.sent = <<"diagnostic">>

\* C5: a call makes at most 3 attempts and stops at the first 200; when every
\* attempt is a non-200 or a transport error it returns None after 3 attempts
\* and the cycle adds exactly one to the failure counter (0 -> 1 sends one
\* diagnostic).
C5_Retries ==
    /\ cyc.attempts <= 3
    /\ \A i \in 1..(Len(cyc.outs) - 1) : cyc.outs[i].status # "200"
    /\ cyc.ran =>
      /\ \A i \in 1..Len(cyc.outs) :
            (cyc.outs[i].status = "200" /\ \A j \in 1..(i - 1) : cyc.outs[j].status # "200")
                => cyc.attempts = i
      /\ (\A i \in 1..Len(cyc.outs) : cyc.outs[i].status # "200") =>
            /\ cyc.attempts = 3
            /\ cyc.result = RespNone
            /\ failed_count = cyc.prevFailed + 1
            /\ cyc.prevFailed = 0 => cyc.sent = <<"diagnostic">>

\* C5 witness: HTTP 500 three times on a fresh poller
C5_Witness ==
    /\ cyc.ran /\ cyc.prevFailed = 0 /\ failed_count = 1
    /\ Len(cyc.outs) = 3 /\ \A i \in 1..3 : cyc.outs[i].status = "500"
    /\ cyc.sent = <<"diagnostic">>

\* C6: once the catalog fallback has produced an identifier for a symbol,
\* get_security_id returns that identifier, the poll payload built afterwards
\* holds it, and the catalog is not fetched again.
C6_PatchResolves ==
    /\ fetches <= 1
    /\ \A i \in 1..Len(patched) :
          /\ get_security_id(patched[i][1]) = patched[i][2]
          /\ p_pc # "new" => IntOrSelf(patched[i][2]) \in AllPayloadIds

\* C16: the catalog is downloaded at the poller's start exactly when one or
\* more of the configured symbols have no identifier, also when the others have
\* one, and never more than once.
C16_FetchOnUnresolved ==
    /\ fetches <= 1
    /\ p_pc # "new" =>
          (fetches = 1 <=>
             \E i \in 1..Len(symbols) : ~TruthyStr(get_security_id(symbols[i])))

\* C15: a cycle that got a response other than None sends exactly one
\* snapshot notification (the text of format_poll_message, unchanged), also
\* when the response is the one of the cycle before; a cycle whose response is
\* None sends no snapshot notification.
C15_SnapshotEveryCycle ==
    cyc.ran =>
      Count(cyc.sent, "snapshot") = (IF cyc.result # RespNone THEN 1 ELSE 0)

\* C15 witness: a second cycle in a row got the same priced response and sent
\* its snapshot, nothing else
C15_Witness ==
    /\ cyc.ran /\ cyc.same /\ cyc.result = "priced" /\ cyc.msg = "snapshot lines"
    /\ cyc.sent = <<"snapshot">>

\* the outcome of the last cycle, for one that has just ended
CycleOutcome ==
    IF cyc.exc THEN "exception"
    ELSE IF cyc.result = RespNone THEN "null" ELSE "response"

\* C12: the poller's loop is never left, and it is for ever again at the top
\* of the loop and at its sleep: whatever the outcome of a cycle (a response,
\* a null result after the retries, an exception inside the cycle), the thread
\* sleeps the interval and later starts another cycle.
C12_PollerRuns ==
    /\ [](p_pc \in {"new", "loop", "post", "backoff", "notify", "sleep"})
    /\ []<>(p_pc = "loop")
    /\ []<>(p_pc = "sleep")

\* C12 witness: back at the top of the loop after a cycle that raised, the
\* two cycles before it having failed
C12_Witness ==
    /\ p_pc = "loop" /\ CycleOutcome = "exception"
    /\ cyc.sent = <<"exception">> /\ failed_count = 2

----------------------------------------------------------------------------
(* The streaming client's reconnect loop and stop(): SpecCli, FairSpecCli.  *)
(*                                                                          *)
(* c_pc follows run_forever: "top" (the while test), "create" (building the *)
(* WebSocketApp), "connect" (entering ws.run_forever), "on_open" (on_open   *)
(* at its first ws.send), "subscribe" (on_open at its second ws.send),      *)
(* "running" (inside run_forever, on_open over), "after" (past the try      *)
(* block), "sleep" (in the                                                  *)
(* reconnect delay), "exit" (the loop left).  s_pc follows a stop() call on *)
(* another thread: "idle", "close" (flag set, before the close), "done".    *)
(***************************************************************************)

\* an on_open without the test of the security list
SubscribeAlways(list) == TRUE

\* `if not sec_list: ... return` of on_open (line 261), negated
SubscribeDue(list) == list # << >>

ClientConfigs == { <<"RELIANCE", "SENSEX">>, <<"UNKNOWNTICKER">> }

InitClient ==
    /\ symbols \in ClientConfigs
    /\ payload_map = << >> /\ sec_list = << >> /\ built = {}
    /\ InitMsg /\ InitPollIdle /\ InitCliIdle /\ InitTgIdle

cliRest == <<msgVars, pollVars, tgVars, symbols, payload_map, built>>

\* `while not self._stop.is_set()`
ClientTop ==
    /\ c_pc = "top"
    /\ c_pc' = IF stop_flag THEN "exit" ELSE "create"
    /\ UNCHANGED <<stop_flag, ws, conn, frames, delayed, opened, s_pc, sec_list, cliRest>>

\* `self.ws = websocket.WebSocketApp(...)`: a new app, not connected
ClientCreate ==
    /\ c_pc = "create"
    /\ ws' = "app" /\ conn' = "none" /\ frames' = << >>
    /\ c_pc' = "connect"
    /\ UNCHANGED <<stop_flag, delayed, opened, s_pc, sec_list, cliRest>>

\* `self.ws.run_forever(...)`: the connection opens and on_open is called
ClientConnectOk ==
    /\ c_pc = "connect"
    /\ conn' = "open"
    /\ opened' = IF opened < MaxConnects THEN opened + 1 ELSE opened
    /\ delayed' = FALSE
    /\ c_pc' = "on_open"
    /\ UNCHANGED <<stop_flag, ws, frames, s_pc, sec_list, cliRest>>

\* on_open from `ws.send(json.dumps(auth))` to the second send or its return:
\* on a connection that is not open any more nothing is sent, the send raises
\* and the except clause of on_open ends it
OnOpenAuth ==
    /\ c_pc = "on_open"
    /\ IF conn = "open"
       THEN /\ frames' = Append(frames, "auth")
            /\ sec_list' = build_security_list(symbols)
            /\ c_pc' = IF SubscribeDue(sec_list') THEN "subscribe" ELSE "running"
       ELSE /\ c_pc' = "running"
            /\ UNCHANGED <<frames, sec_list>>
    /\ UNCHANGED <<stop_flag, ws, conn, delayed, opened, s_pc, cliRest>>

\* on_open at `ws.send(json.dumps(sub))`, to its return
OnOpenSubscribe ==
    /\ c_pc = "subscribe"
    /\ frames' = IF conn = "open" THEN Append(frames, "subscribe") ELSE frames
    /\ c_pc' = "running"
    /\ UNCHANGED <<stop_flag, ws, conn, delayed, opened, s_pc, sec_list, cliRest>>

\* `self.ws.run_forever(...)`: connecting fails (an error return or an
\* exception caught at line 348)
ClientConnectFail ==
    /\ c_pc = "connect"
    /\ conn' = "closed"
    /\ delayed' = FALSE
    /\ c_pc' = "after"
    /\ UNCHANGED <<stop_flag, ws, frames, opened, s_pc, sec_list, cliRest>>

\* the peer or the network ends the open connection
ConnLost ==
    /\ c_pc \in {"on_open", "subscribe", "running"} /\ conn = "open"
    /\ conn' = "closed"
    /\ UNCHANGED <<c_pc, stop_flag, ws, frames, delayed, opened, s_pc, sec_list, cliRest>>

\* ws.run_forever returns, or raises into the except clause, once the
\* connection is closed
ClientReturn ==
    /\ c_pc = "running" /\ conn = "closed"
    /\ c_pc' = "after"
    /\ UNCHANGED <<stop_flag, ws, conn, frames, delayed, opened, s_pc, sec_list, cliRest>>

\* a loop that stops reconnecting once a connection has ended
ClientAfterGiveUp ==
    /\ c_pc = "after"
    /\ c_pc' = "exit"
    /\ UNCHANGED <<stop_flag, ws, conn, frames, delayed, opened, s_pc, sec_list, cliRest>>

\* `if not self._stop.is_set():` after the try block
ClientAfter ==
    /\ c_pc = "after"
    /\ c_pc' = IF stop_flag THEN "top" ELSE "sleep"
    /\ UNCHANGED <<stop_flag, ws, conn, frames, delayed, opened, s_pc, sec_list, cliRest>>

\* `time.sleep(RECONNECT_DELAY)`
ClientSleep ==
    /\ c_pc = "sleep"
    /\ delayed' = TRUE
    /\ c_pc' = "top"
    /\ UNCHANGED <<stop_flag, ws, conn, frames, opened, s_pc, sec_list, cliRest>>

\* stop(): `self._stop.set()`
StopSet ==
    /\ s_pc = "idle"
    /\ stop_flag' = TRUE
    /\ s_pc' = "close"
    /\ UNCHANGED <<c_pc, ws, conn, frames, delayed, opened, sec_list, cliRest>>

\* stop(): `if self.ws: self.ws.close()`; closing reaches an open connection
\* only
StopClose ==
    /\ s_pc = "close"
    /\ conn' = IF ws = "app" /\ conn = "open" THEN "closed" ELSE conn
    /\ s_pc' = "done"
    /\ UNCHANGED <<c_pc, stop_flag, ws, frames, delayed, opened, sec_list, cliRest>>

ClientStep ==
    \/ ClientTop \/ ClientCreate \/ ClientConnectOk \/ ClientConnectFail
    \/ OnOpenAuth \/ OnOpenSubscribe \/ ClientReturn \/ ClientAfter \/ ClientSleep

NextCli == ClientStep \/ ConnLost \/ StopSet \/ StopClose

SpecCli == InitClient /\ [][NextCli]_vars

\* the client thread keeps running: none of its steps blocks for ever except
\* the receive loop of an open connection
FairSpecCli == InitClient /\ [][NextCli]_vars /\ WF_vars(ClientStep)

\* the places of "subscribe" in the frames sent on the current connection
SubscribeAt == {i \in 1..Len(frames) : frames[i] = "subscribe"}

\* C13: on every connection at most one subscribe frame is sent and an auth
\* frame was sent before it; with no resolvable symbol no subscribe frame is
\* sent and the connection is open after on_open; an open connection ends only
\* by the peer or the network or by stop().
C13_AuthThenSubscribe ==
    /\ [](/\ Cardinality(SubscribeAt) <= 1
          /\ \A i \in SubscribeAt : \E j \in 1..(i - 1) : frames[j] = "auth"
          /\ build_security_list(symbols) = << >> => SubscribeAt = {})
    /\ [][(c_pc = "on_open" /\ c_pc' # c_pc /\ conn = "open"
             /\ build_security_list(symbols) = << >>)
                => (c_pc' = "running" /\ frames' = <<"auth">>
                    /\ conn' = "open" /\ ws' = ws)]_vars
    /\ [][(conn = "open" /\ conn' # "open") => (ConnLost \/ StopClose)]_vars

\* C13 witness: a second connection of a client without resolvable symbol:
\* auth sent, nothing subscribed, the connection open
C13_Witness ==
    /\ symbols = <<"UNKNOWNTICKER">> /\ opened = 2
    /\ c_pc = "running" /\ conn = "open" /\ frames = <<"auth">> /\ sec_list = << >>

\* C9: once stop() has returned no connection is open or gets opened, and the
\* loop does not sleep a reconnect delay.
C9_StopHonoured ==
    s_pc = "done" => (conn # "open" /\ c_pc # "sleep")

\* C10: without the stop flag the loop is never left, and every end of a
\* connection is followed, after the reconnect delay, by a new connection
\* attempt unless stop is set meanwhile.
C10_Reconnects ==
    /\ [](c_pc = "exit" => stop_flag)
    /\ ((c_pc = "after" /\ ~stop_flag) ~> ((c_pc = "connect" /\ delayed) \/ stop_flag))

\* C10 witness: a third connection attempt after two connections ended, the
\* delay slept, stop never requested
C10_Witness ==
    c_pc = "connect" /\ delayed /\ opened = 2 /\ ~stop_flag /\ s_pc = "idle"

----------------------------------------------------------------------------
(* The poller and the message handler side by side, as __main__ runs them:  *)
(* SpecBot.  The snapshot endpoint answers the first attempt of every call  *)
(* with an object; the answer written "priced" is PolledBody.  The stream   *)
(* delivers ticks of the same instrument, at any point of a poll cycle.     *)
(***************************************************************************)

\* {"data": {"NSE_EQ": {"2885": {"last_price": p}}}}
QuoteBody(p) ==
    Body("dict", << Bucket("NSE_EQ", << [instid |-> "2885", isdict |-> TRUE,
                                         last_price |-> p, ltp |-> Null,
                                         lastPrice |-> Null] >>) >>, NoTop)

\* the object a "priced" answer of the snapshot endpoint stands for
PolledBody == QuoteBody(1)
\* the instrument key and the price a reader of PolledBody finds
PolledKey == TickKey(RefExtract(PolledBody).symbol)
PolledPrice == RefExtract(PolledBody).ltp

TickFrames == { Frame("text", TRUE, "object", QuoteBody(p)) : p \in 1..MaxPrice }

InitBot == InitPoller /\ symbols = <<"RELIANCE">>

\* an attempt that is answered with an object
PollAttemptAnswered == PollAttempt /\ cyc'.got /\ cyc'.result # RespNone

\* a tick arrives on the stream
StreamTick == \E m \in TickFrames : OnMessage(m)

NextBot ==
    PollerStart \/ PollBegin \/ PollAttemptAnswered \/ PollNotify \/ PollSleep \/ StreamTick
SpecBot == InitBot /\ [][NextBot]_vars

\* the step is the one in which the poller gets the priced answer
PricedPollStep == p_pc = "post" /\ cyc'.got /\ cyc'.result = "priced"

\* the step is a tick with the polled price for the polled instrument, and
\* the poller has got the priced answer since the tick before it
TickAfterPricedPoll ==
    /\ ev.polled /\ ~ev'.polled
    /\ ev'.refKey = PolledKey /\ ev'.refPrice = PolledPrice

\* C18: a poll cycle whose response holds the price P for instrument K leaves
\* P stored under K in last_ltps, and a stream tick for K with the price P
\* that follows it sends no notification.
C18_PollerWritesStore ==
    [][/\ PricedPollStep => StoreGet(last_ltps', PolledKey) = PolledPrice
       /\ TickAfterPricedPoll => ~ev'.notified]_vars

----------------------------------------------------------------------------
(* The streaming client with its message handler: SpecStream.  Frames       *)
(* arrive while a connection is open: quotes of one instrument at every     *)
(* price, 0 included, a text that is not JSON, and bytes that do not decode.*)
(***************************************************************************)

StreamFrames ==
    { Frame("text", TRUE, "object", QuoteBody(p)) : p \in 0..MaxPrice }
    \cup { Frame("text", TRUE, "invalid", EmptyBody), Frame("bytes", FALSE, "invalid", EmptyBody) }

InitStream == InitClient /\ symbols = <<"RELIANCE", "SENSEX">>

\* the receive loop of the open connection calls on_message
ClientReceive ==
    /\ c_pc = "running" /\ conn = "open"
    /\ \E m \in StreamFrames : OnMessage(m)

NextStream == NextCli \/ ClientReceive
SpecStream == InitStream /\ [][NextStream]_vars

\* the last message was the first of a connection opened after the one that
\* carried the message before it
FirstAfterReconnect == ev.prevConnNo >= 1 /\ ev.connNo > ev.prevConnNo

\* C19: no step removes a key of last_ltps, and the steps of the reconnect
\* loop and of stop() leave it as it is; after a message carrying a price the
\* value stored for its key is that price; the first tick of a new connection
\* that repeats the price stored for its key sends no notification.
C19_StoreSurvives ==
    /\ [][/\ \A k \in DOMAIN last_ltps : k \in DOMAIN last_ltps'
          /\ cliVars' # cliVars => last_ltps' = last_ltps
          /\ (ev'.json = "invalid" /\ ev' # ev) => last_ltps' = last_ltps]_vars
    /\ [](ev.refPrice # Null => StoreGet(last_ltps, ev.refKey) = ev.refPrice)
    /\ []((FirstAfterReconnect /\ ev.refPrice # Null /\ ev.refPrice = ev.prevVal)
            => ~ev.notified)

----------------------------------------------------------------------------
(* A loop calling send_telegram: SpecTg.                                    *)
(*                                                                          *)
(* tg.pc is "call" (the caller is about to call send_telegram), "next" (the *)
(* call returned and the caller is at its next statement) or "raised" (an   *)
(* exception left send_telegram into the caller).                           *)
(***************************************************************************)

TokenValues == {NoneSym, "", "123:abc"}
ChatValues == {NoneSym, "", "-100"}

InitTg ==
    /\ tg \in { [NoCaller EXCEPT !.token = t, !.chat = c, !.pc = "call"] :
                   t \in TokenValues, c \in ChatValues }
    /\ InitMsg /\ InitRes /\ InitPollIdle /\ InitCliIdle

\* the caller runs send_telegram(text) to its end
TgSend ==
    /\ tg.pc = "call" /\ tg.calls < MaxSends
    /\ \E outcome \in PostOutcomes :
          LET r == send_telegram(tg.token, tg.chat, outcome)
          IN  tg' = [tg EXCEPT !.pc = IF r.raised THEN "raised" ELSE "next",
                               !.calls = @ + 1,
                               !.posts = @ + (IF r.posted THEN 1 ELSE 0),
                               !.last = outcome,
                               !.log = r.log]
    /\ UNCHANGED <<msgVars, resVars, pollVars, cliVars>>

\* the caller's statement after the call, and round its loop
TgResume ==
    /\ tg.pc = "next"
    /\ tg' = [tg EXCEPT !.pc = "call"]
    /\ UNCHANGED <<msgVars, resVars, pollVars, cliVars>>

NextTg == TgSend \/ TgResume
SpecTg == InitTg /\ [][NextTg]_vars

TgConfigured == TruthyStr(tg.token) /\ TruthyStr(tg.chat)

\* C11: no exception leaves send_telegram: after a failed outbound call
\* (transport error or error status) and after a call with the token or the
\* chat id not configured the caller is at its next step; with either of them
\* not configured no outbound call is made at all.
C11_NeverPropagates ==
    /\ tg.pc # "raised"
    /\ tg.calls > 0 => tg.pc \in {"next", "call"}
    /\ ~TgConfigured => (tg.posts = 0 /\ tg.log \in {"none", "not configured"})
    /\ TgConfigured => tg.posts = tg.calls
    /\ (TgConfigured /\ tg.last \in {"transport", "status"}) => tg.log = "send error"

\* C11 witness: a second call ended on an error status and the caller is back
\* at the top of its loop
C11_Witness ==
    /\ TgConfigured /\ tg.calls = 2 /\ tg.posts = 2
    /\ tg.last = "status" /\ tg.pc = "call"

====
